---- MODULE Spec2Model ----
(***************************************************************************)
(* Model of scoutfs super.c: superblock selection (read_supers), the mount *)
(* path (scoutfs_mount / scoutfs_fill_super), teardown (scoutfs_kill_sb)   *)
(* and the module's load and unload (scoutfs_module_init / _exit).         *)
(*                                                                         *)
(* A brick is modelled by the fields the code looks at: hdr.crc, hdr.seq,  *)
(* id and one payload byte.  The bytes the checksum covers are the bytes   *)
(* that follow hdr.crc: <<seq, id, payload>>, one byte each.  A 32-bit     *)
(* checksum value is the set of its bit positions that are 1 (bit 0 is the *)
(* least significant), so that the reflected CRC32C is computed bit by bit *)
(* as crc32c() computes it.                                                *)
(***************************************************************************)
EXTENDS Integers, Naturals, Sequences, FiniteSets, TLC

(* ------------------------------ bounds -------------------------------- *)
MaxSeq == 1
MaxPayload == 1
MaxKey == 1
NumBloomKeys == 1

(* ------------------------- program constants -------------------------- *)
NumSlots == 2
EINVAL == 22
ENOMEM == 12
EIO == 5
SCOUTFS_SUPER_ID == 115
SCOUTFS_ROOT_INO == 1
InitialBlkno == 2

NULL == -1

VARIABLES dev, pc, sbi, sbi_mem, s_fs_info, s_blocksize, s_root, inode,
          i, bh, found, ret, cause, calls, mod

vars == <<dev, pc, sbi, sbi_mem, s_fs_info, s_blocksize, s_root, inode,
          i, bh, found, ret, cause, calls, mod>>

(* ------------------------------ crc32c -------------------------------- *)
\* the reflected Castagnoli polynomial 0x82F63B78 as bit positions
Crc32cPoly == {31, 25, 23, 22, 21, 20, 18, 17, 13, 12, 11, 9, 8, 6, 5, 4, 3}

\* the seed ~0
AllOnes == 0..31

ByteBits(b) == {k \in 0..7 : (b \div (2 ^ k)) % 2 = 1}

Xor(a, b) == (a \ b) \cup (b \ a)

ShiftRight(a) == {k - 1 : k \in a \ {0}}

\* one step of the bitwise loop: crc = (crc >> 1) ^ (crc & 1 ? poly : 0)
CrcShift(crc) == IF 0 \in crc THEN Xor(ShiftRight(crc), Crc32cPoly)
                 ELSE ShiftRight(crc)

RECURSIVE CrcShifts(_, _)
CrcShifts(crc, n) == IF n = 0 THEN crc ELSE CrcShifts(CrcShift(crc), n - 1)

RECURSIVE Crc32c(_, _)
Crc32c(crc, bytes) ==
    IF bytes = <<>> THEN crc
    ELSE Crc32c(CrcShifts(Xor(crc, ByteBits(Head(bytes))), 8), Tail(bytes))

(* ------------------------------ bricks -------------------------------- *)
\* the bytes of a super brick after hdr.crc
CrcBytes(super) == <<super.seq, super.id, super.payload>>

SuperCrc(super) == Crc32c(AllOnes, CrcBytes(super))

\* sb_bread() returned NULL for this slot
NoBrick == [crc |-> {}, seq |-> NULL, id |-> NULL, payload |-> NULL]

ZeroSuper == [crc |-> {}, seq |-> 0, id |-> 0, payload |-> 0]

Contents == [seq : 0..MaxSeq, id : {0, SCOUTFS_SUPER_ID}, payload : 0..MaxPayload]

WithCrc(c, crc) == [crc |-> crc, seq |-> c.seq, id |-> c.id, payload |-> c.payload]

\* checksums a brick can carry: the one of its bytes, that one with a bit
\* flipped, and the one of the bytes before the payload was overwritten
\* (torn write)
StoredCrcs(c) ==
    { SuperCrc(c),
      Xor(SuperCrc(c), {0}),
      SuperCrc([c EXCEPT !.payload = (c.payload + 1) % (MaxPayload + 1)]) }

Bricks == UNION { { WithCrc(c, crc) : crc \in StoredCrcs(c) } : c \in Contents }

Devices == [0..(NumSlots - 1) -> Bricks \cup {NoBrick}]

(* --------------------------- read_supers ------------------------------ *)
\* the id comparison left out
BadIdSkipped(super) == FALSE

BadId(super) == super.id # SCOUTFS_SUPER_ID

\* the checksum comparison left out
BadCrcSkipped(super) == FALSE

BadCrc(super) == Crc32c(AllOnes, CrcBytes(super)) # super.crc

\* the comparison reversed
BetterLess(fnd, seq, cur) == fnd < 0 \/ seq < cur

\* the test of found left out
BetterNoFirst(fnd, seq, cur) == seq > cur

\* greater-or-equal in place of greater
BetterOrEqual(fnd, seq, cur) == fnd < 0 \/ seq >= cur

\* the comparison of sequence numbers left out
BetterFirstOnly(fnd, seq, cur) == fnd < 0

Better(fnd, seq, cur) == fnd < 0 \/ seq > cur

\* the brelse at the top of the loop left out
ScanEventsNoRelease(held, idx, brick) ==
    << <<"sb_bread", idx>> >>
    \o (IF brick = NoBrick THEN << <<"warn_read", idx>> >>
        ELSE IF BadId(brick) THEN << <<"warn_id", idx>> >>
        ELSE << <<"crc32c", idx>> >>
             \o (IF BadCrc(brick) THEN << <<"warn_crc", idx>> >> ELSE <<>>))

\* the events of one pass through the loop body for slot idx
ScanEvents(held, idx, brick) ==
    (IF held # NULL THEN << <<"brelse", held>> >> ELSE <<>>)
    \o << <<"sb_bread", idx>> >>
    \o (IF brick = NoBrick THEN << <<"warn_read", idx>> >>
        ELSE IF BadId(brick) THEN << <<"warn_id", idx>> >>
        ELSE << <<"crc32c", idx>> >>
             \o (IF BadCrc(brick) THEN << <<"warn_crc", idx>> >> ELSE <<>>))

\* found set for every valid slot, the copy only for a better one
ScanSlotFoundAlways(st, idx, brick) ==
    IF brick = NoBrick THEN st
    ELSE IF BadId(brick) THEN st
    ELSE IF BadCrc(brick) THEN st
    ELSE IF Better(st.found, brick.seq, st.super.seq)
         THEN [found |-> idx, super |-> brick]
         ELSE [found |-> idx, super |-> st.super]

\* the effect of one pass through the loop body on (found, sbi->super)
ScanSlot(st, idx, brick) ==
    IF brick = NoBrick THEN st
    ELSE IF BadId(brick) THEN st
    ELSE IF BadCrc(brick) THEN st
    ELSE IF Better(st.found, brick.seq, st.super.seq)
         THEN [found |-> idx, super |-> brick]
         ELSE st

RECURSIVE ScanFrom(_, _, _)
ScanFrom(d, idx, st) ==
    IF idx >= NumSlots THEN st
    ELSE ScanFrom(d, idx + 1, ScanSlot(st, idx, d[idx]))

\* the wrong errno
ReadSupersRetNomem(fnd) == IF fnd < 0 THEN -ENOMEM ELSE 0

ReadSupersRet(fnd) == IF fnd < 0 THEN -EINVAL ELSE 0

\* read_supers as a function of the device: the return value and sbi->super
ReadSupersOutcome(d) ==
    LET st == ScanFrom(d, 0, [found |-> -1, super |-> ZeroSuper])
    IN  [ret |-> ReadSupersRet(st.found), found |-> st.found, super |-> st.super]

(* ------------------------------ context ------------------------------- *)
\* kzalloc: every field zero
ZeroSbi == [item_lock |-> "zero", item_root |-> {}, dirty_item_root |-> {},
            super |-> ZeroSuper, next_ino |-> 0, next_blkno |-> 0,
            bloom_hash_keys |-> [k \in 1..NumBloomKeys |-> 0]]

BloomKeys == [1..NumBloomKeys -> 0..MaxKey]

IgetErrors == {-ENOMEM, -EIO}

Log(ev) == calls' = calls \o ev

(* -------------------------------- Init -------------------------------- *)
Init ==
    /\ dev \in Devices
    /\ pc = "mount"
    /\ sbi = ZeroSbi
    /\ sbi_mem = "none"
    /\ s_fs_info = "NULL"
    /\ s_blocksize = "unset"
    /\ s_root = "NULL"
    /\ inode = "NULL"
    /\ i = 0
    /\ bh = NULL
    /\ found = -1
    /\ ret = 0
    /\ cause = "none"
    /\ calls = <<>>
    /\ mod = [pc |-> "unloaded", inode_init |-> FALSE, dir_init |-> FALSE,
              registered |-> FALSE, ret |-> 0, calls |-> <<>>]

(* ------------------------------- actions ------------------------------ *)
\* scoutfs_mount: mount_bdev calls scoutfs_fill_super on a new super_block
ScoutfsMount ==
    /\ pc = "mount"
    /\ mod.pc = "loaded"
    /\ UNCHANGED mod
    /\ pc' = "fill_super"
    /\ Log(<< <<"fill_super", 0>> >>)
    /\ UNCHANGED <<dev, sbi, sbi_mem, s_fs_info, s_blocksize, s_root, inode,
                   i, bh, found, ret, cause>>

\* the check of the allocation left out
AllocFailedIgnored(ok) == FALSE

AllocFailed(ok) == ~ok

\* scoutfs_fill_super, up to the check of the allocation
Kzalloc ==
    /\ pc = "fill_super"
    /\ UNCHANGED mod
    /\ \E ok \in BOOLEAN :
         /\ sbi_mem' = IF ok THEN "allocated" ELSE "none"
         /\ s_fs_info' = IF ok THEN "sbi" ELSE "NULL"
         /\ sbi' = ZeroSbi
         /\ Log(<< <<"kzalloc", IF ok THEN 1 ELSE 0>> >>)
         /\ IF AllocFailed(ok)
            THEN /\ pc' = "fill_ret"
                 /\ ret' = -ENOMEM
                 /\ cause' = "alloc"
            ELSE /\ pc' = "item_init"
                 /\ UNCHANGED <<ret, cause>>
    /\ UNCHANGED <<dev, s_blocksize, s_root, inode, i, bh, found>>

\* the spin_lock_init left out
ItemInitNoLock(s) == [s EXCEPT !.item_root = {}, !.dirty_item_root = {}]

\* spin_lock_init and the two RB_ROOTs
ItemInitState(s) == [s EXCEPT !.item_lock = "unlocked", !.item_root = {},
                              !.dirty_item_root = {}]

ItemInit ==
    /\ pc = "item_init"
    /\ UNCHANGED mod
    /\ sbi' = ItemInitState(sbi)
    /\ Log(<< <<"item_init", 0>> >>)
    /\ pc' = "set_blocksize"
    /\ UNCHANGED <<dev, sbi_mem, s_fs_info, s_blocksize, s_root, inode,
                   i, bh, found, ret, cause>>

\* the check of sb_set_blocksize left out
BlocksizeFailedIgnored(ok) == FALSE

BlocksizeFailed(ok) == ~ok

\* sb_set_blocksize and its check; on success read_supers is entered
SetBlocksize ==
    /\ pc = "set_blocksize"
    /\ UNCHANGED mod
    /\ \E ok \in BOOLEAN :
         /\ s_blocksize' = IF ok THEN "brick" ELSE "unset"
         /\ Log(<< <<"sb_set_blocksize", IF ok THEN 1 ELSE 0>> >>
                \o (IF BlocksizeFailed(ok) THEN <<>>
                    ELSE << <<"read_supers", 0>> >>))
         /\ IF BlocksizeFailed(ok)
            THEN /\ pc' = "fill_ret"
                 /\ ret' = -EINVAL
                 /\ cause' = "blocksize"
                 /\ UNCHANGED <<i, bh, found>>
            ELSE /\ pc' = "read_supers"
                 /\ i' = 0
                 /\ bh' = NULL
                 /\ found' = -1
                 /\ UNCHANGED <<ret, cause>>
    /\ UNCHANGED <<dev, sbi, sbi_mem, s_fs_info, s_root, inode>>

\* one iteration of the loop of read_supers
ReadSupersScan ==
    /\ pc = "read_supers"
    /\ UNCHANGED mod
    /\ i < NumSlots
    /\ LET st == ScanSlot([found |-> found, super |-> sbi.super], i, dev[i])
       IN  /\ found' = st.found
           /\ sbi' = [sbi EXCEPT !.super = st.super]
           /\ Log(ScanEvents(bh, i, dev[i])
                  \o (IF st.found = i THEN << <<"memcpy", i>> >> ELSE <<>>))
    /\ bh' = IF dev[i] = NoBrick THEN NULL ELSE i
    /\ i' = i + 1
    /\ UNCHANGED <<dev, pc, sbi_mem, s_fs_info, s_blocksize, s_root, inode,
                   ret, cause>>

\* the whole context reset before the counters are set
SeedCountersReset(s) == [ZeroSbi EXCEPT !.next_ino = SCOUTFS_ROOT_INO + 1,
                                        !.next_blkno = InitialBlkno]

\* the block counter taken from the selected record
SeedCountersFromSuper(s) == [s EXCEPT !.next_ino = SCOUTFS_ROOT_INO + 1,
                                      !.next_blkno = InitialBlkno + s.super.payload]

\* the two atomic64_set
SeedCounters(s) == [s EXCEPT !.next_ino = SCOUTFS_ROOT_INO + 1,
                             !.next_blkno = InitialBlkno]

\* read_supers after the loop
ReadSupersFinish ==
    /\ pc = "read_supers"
    /\ UNCHANGED mod
    /\ i >= NumSlots
    /\ bh' = NULL
    /\ ret' = ReadSupersRet(found)
    /\ pc' = "read_ret"
    /\ IF ReadSupersRet(found) # 0
       THEN /\ Log((IF bh # NULL THEN << <<"brelse", bh>> >> ELSE <<>>)
                   \o << <<"err_no_super", 0>> >>)
            /\ UNCHANGED sbi
       ELSE \E keys \in BloomKeys :
            /\ sbi' = [SeedCounters(sbi) EXCEPT !.bloom_hash_keys = keys]
            /\ Log((IF bh # NULL THEN << <<"brelse", bh>> >> ELSE <<>>)
                   \o << <<"info_using", found>>, <<"seed_counters", 0>>,
                         <<"get_random_bytes", NumBloomKeys>> >>)
    /\ UNCHANGED <<dev, sbi_mem, s_fs_info, s_blocksize, s_root, inode,
                   i, found, cause>>

\* the check of read_supers left out
ReadFailedIgnored(r) == FALSE

ReadFailed(r) == r # 0

\* scoutfs_fill_super: ret = read_supers(sb); if (ret) return ret;
FillSuperReadRet ==
    /\ pc = "read_ret"
    /\ UNCHANGED mod
    /\ IF ReadFailed(ret)
       THEN /\ pc' = "fill_ret"
            /\ cause' = "nosuper"
       ELSE /\ pc' = "iget"
            /\ UNCHANGED cause
    /\ UNCHANGED <<dev, sbi, sbi_mem, s_fs_info, s_blocksize, s_root, inode,
                   i, bh, found, ret, calls>>

\* scoutfs_iget of the root inode and its check
Iget ==
    /\ pc = "iget"
    /\ UNCHANGED mod
    /\ \/ /\ inode' = "root"
          /\ Log(<< <<"scoutfs_iget", 1>> >>)
          /\ pc' = "make_root"
          /\ UNCHANGED <<ret, cause>>
       \/ \E e \in IgetErrors :
          /\ inode' = "ERR"
          /\ Log(<< <<"scoutfs_iget", 0>> >>)
          /\ ret' = e
          /\ cause' = "iget"
          /\ pc' = "fill_ret"
    /\ UNCHANGED <<dev, sbi, sbi_mem, s_fs_info, s_blocksize, s_root,
                   i, bh, found>>

\* d_make_root and its check
DMakeRoot ==
    /\ pc = "make_root"
    /\ UNCHANGED mod
    /\ \E ok \in BOOLEAN :
         /\ Log(<< <<"d_make_root", IF ok THEN 1 ELSE 0>> >>)
         /\ IF ok
            THEN /\ s_root' = "root"
                 /\ ret' = 0
                 /\ UNCHANGED <<inode, cause>>
            ELSE /\ s_root' = "NULL"
                 /\ inode' = "NULL"
                 /\ ret' = -ENOMEM
                 /\ cause' = "make_root"
    /\ pc' = "fill_ret"
    /\ UNCHANGED <<dev, sbi, sbi_mem, s_fs_info, s_blocksize, i, bh, found>>

\* mount_bdev after scoutfs_fill_super returned: a failure deactivates the
\* super_block, which calls kill_sb, before the error reaches the caller
MountBdevRet ==
    /\ pc = "fill_ret"
    /\ UNCHANGED mod
    /\ pc' = IF ret # 0 THEN "kill_sb" ELSE "mounted"
    /\ UNCHANGED <<dev, sbi, sbi_mem, s_fs_info, s_blocksize, s_root, inode,
                   i, bh, found, ret, cause, calls>>

\* unmount of a mounted filesystem reaches kill_sb
Unmount ==
    /\ pc = "mounted"
    /\ UNCHANGED mod
    /\ pc' = "kill_sb"
    /\ Log(<< <<"umount", 0>> >>)
    /\ UNCHANGED <<dev, sbi, sbi_mem, s_fs_info, s_blocksize, s_root, inode,
                   i, bh, found, ret, cause>>

\* the kfree left out
KfreeLeak(p, mem) == mem

\* kfree(p): NULL is ignored
Kfree(p, mem) == IF p = "NULL" THEN mem
                 ELSE IF mem = "allocated" THEN "freed" ELSE "double_free"

\* the kfree ahead of kill_block_super
KillSbEventsSwapped(p) ==
    << <<"kfree", IF p = "NULL" THEN 0 ELSE 1>>, <<"kill_block_super", 0>> >>

\* the two calls of scoutfs_kill_sb, in their order
KillSbEvents(p) ==
    << <<"kill_block_super", 0>>, <<"kfree", IF p = "NULL" THEN 0 ELSE 1>> >>

\* scoutfs_kill_sb
KillSb ==
    /\ pc = "kill_sb"
    /\ UNCHANGED mod
    /\ s_root' = "NULL"
    /\ inode' = "NULL"
    /\ sbi_mem' = Kfree(s_fs_info, sbi_mem)
    /\ Log(KillSbEvents(s_fs_info))
    /\ pc' = IF ret # 0 THEN "mount_failed" ELSE "unmounted"
    /\ UNCHANGED <<dev, sbi, s_fs_info, s_blocksize, i, bh, found, ret, cause>>

(* ------------------------- module load and unload --------------------- *)
MountVars == <<dev, pc, sbi, sbi_mem, s_fs_info, s_blocksize, s_root, inode,
               i, bh, found, ret, cause, calls>>

\* what the three calls of scoutfs_module_init can return
InitResults == {0, -ENOMEM}

\* a ?: b evaluates b only if a is 0
ElvisStopsNever(r) == FALSE

ElvisStops(r) == r # 0

ModLog(m, ev) == [m EXCEPT !.calls = m.calls \o << ev >>]

\* scoutfs_module_init: scoutfs_inode_init() ?:
ModuleInodeInit ==
    /\ mod.pc = "unloaded"
    /\ \E r \in InitResults :
         mod' = [ModLog(mod, <<"scoutfs_inode_init", r>>) EXCEPT
                    !.inode_init = (r = 0),
                    !.ret = r,
                    !.pc = IF ElvisStops(r) THEN "load_failed" ELSE "dir_init"]
    /\ UNCHANGED MountVars

\* scoutfs_module_init: scoutfs_dir_init() ?:
ModuleDirInit ==
    /\ mod.pc = "dir_init"
    /\ \E r \in InitResults :
         mod' = [ModLog(mod, <<"scoutfs_dir_init", r>>) EXCEPT
                    !.dir_init = (r = 0),
                    !.ret = r,
                    !.pc = IF ElvisStops(r) THEN "load_failed" ELSE "register"]
    /\ UNCHANGED MountVars

\* scoutfs_module_init: register_filesystem(&scoutfs_fs_type)
ModuleRegister ==
    /\ mod.pc = "register"
    /\ \E r \in InitResults :
         mod' = [ModLog(mod, <<"register_filesystem", r>>) EXCEPT
                    !.registered = (r = 0),
                    !.ret = r,
                    !.pc = IF r # 0 THEN "load_failed" ELSE "loaded"]
    /\ UNCHANGED MountVars

\* scoutfs_module_exit; a mount in progress or a mounted filesystem holds a
\* reference on the module
ModuleUnregister ==
    /\ mod.pc = "loaded"
    /\ pc \in {"mount", "mount_failed", "unmounted"}
    /\ mod' = [ModLog(mod, <<"unregister_filesystem", 0>>) EXCEPT
                  !.registered = FALSE, !.pc = "exit_dir"]
    /\ UNCHANGED MountVars

ModuleDirExit ==
    /\ mod.pc = "exit_dir"
    /\ mod' = [ModLog(mod, <<"scoutfs_dir_exit", 0>>) EXCEPT
                  !.dir_init = FALSE, !.pc = "exit_inode"]
    /\ UNCHANGED MountVars

ModuleInodeExit ==
    /\ mod.pc = "exit_inode"
    /\ mod' = [ModLog(mod, <<"scoutfs_inode_exit", 0>>) EXCEPT
                  !.inode_init = FALSE, !.pc = "exited"]
    /\ UNCHANGED MountVars

Next ==
    \/ ModuleInodeInit
    \/ ModuleDirInit
    \/ ModuleRegister
    \/ ModuleUnregister
    \/ ModuleDirExit
    \/ ModuleInodeExit
    \/ ScoutfsMount
    \/ Kzalloc
    \/ ItemInit
    \/ SetBlocksize
    \/ ReadSupersScan
    \/ ReadSupersFinish
    \/ FillSuperReadRet
    \/ Iget
    \/ DMakeRoot
    \/ MountBdevRet
    \/ Unmount
    \/ KillSb

Spec == Init /\ [][Next]_vars

(* ------------------------- properties: helpers ------------------------ *)
\* the bricks that hold a valid super: the id, and the checksum of the bytes
ValidBricks ==
    {b \in Bricks : b.id = SCOUTFS_SUPER_ID /\ b.crc = SuperCrc(b)}

\* validity of the brick in slot k, stated on the device contents
SlotValid(k) == dev[k] \in ValidBricks

ValidSlots == {k \in 0..(NumSlots - 1) : SlotValid(k)}

Called(op) == \E n \in 1..Len(calls) : calls[n][1] = op

CalledWith(op, arg) == \E n \in 1..Len(calls) : calls[n] = <<op, arg>>

\* read_supers has just returned
AtReadRet == pc = "read_ret"

SwapSlots(d) == [k \in 0..(NumSlots - 1) |-> d[(NumSlots - 1) - k]]

\* both slots valid, equal sequence numbers, different bytes
DistinctTie ==
    /\ ValidSlots = 0..(NumSlots - 1)
    /\ dev[0].seq = dev[1].seq
    /\ dev[0] # dev[1]

(* -------------------------------- C1 ---------------------------------- *)
\* C1: when read_supers returns 0 and at least one slot is valid, sbi->super
\* is the record of a valid slot and its hdr.seq is greater than or equal to
\* the hdr.seq of every valid slot.
C1_MaxSeqWins ==
    (AtReadRet /\ ret = 0 /\ ValidSlots # {}) =>
        /\ \E k \in ValidSlots : sbi.super = dev[k]
        /\ \A j \in ValidSlots : sbi.super.seq >= dev[j].seq

C1_Witness ==
    /\ AtReadRet /\ ret = 0
    /\ ValidSlots = {0, 1}
    /\ dev[0].seq > dev[1].seq
    /\ sbi.super = dev[0]

(* -------------------------------- C2 ---------------------------------- *)
\* C2: a slot whose read fails or that fails validation is never copied into
\* sbi->super and never becomes found, whatever its hdr.seq; when a valid
\* slot exists read_supers selects a valid slot.
C2_InvalidNeverSelected ==
    /\ \A n \in 1..Len(calls) : calls[n][1] = "memcpy" => SlotValid(calls[n][2])
    /\ found # -1 => SlotValid(found)
    /\ sbi.super = ZeroSuper \/ \E k \in ValidSlots : sbi.super = dev[k]
    /\ (AtReadRet /\ ValidSlots # {}) => (ret = 0 /\ found \in ValidSlots)

C2_Witness ==
    /\ AtReadRet
    /\ SlotValid(0)
    /\ dev[1] # NoBrick /\ dev[1].id = SCOUTFS_SUPER_ID /\ ~SlotValid(1)
    /\ dev[1].seq > dev[0].seq
    /\ found = 0 /\ sbi.super = dev[0]

(* -------------------------------- C3 ---------------------------------- *)
\* C3: read_supers returns -EINVAL exactly when no slot is valid and 0
\* otherwise; every slot is read whatever fault an earlier slot had; a single
\* valid slot is the one selected, also with sequence number 0.
C3_ErrorIffAllFault ==
    AtReadRet =>
        /\ (ret = -EINVAL) <=> (ValidSlots = {})
        /\ ret \in {0, -EINVAL}
        /\ \A k \in 0..(NumSlots - 1) : CalledWith("sb_bread", k)
        /\ \A k \in 0..(NumSlots - 1) :
               ValidSlots = {k} => (found = k /\ sbi.super = dev[k])

C3_Witness ==
    /\ AtReadRet
    /\ dev[0] = NoBrick
    /\ SlotValid(1) /\ dev[1].seq = 0
    /\ ret = 0 /\ found = 1 /\ sbi.super = dev[1]

(* -------------------------------- C4 ---------------------------------- *)
\* C4: when both slots are valid with equal hdr.seq the record of slot 0 is
\* selected; slot 1 replaces a valid slot 0 only if its hdr.seq is strictly
\* greater.
C4_FirstWinsTie ==
    (AtReadRet /\ ValidSlots = {0, 1}) =>
        /\ dev[0].seq = dev[1].seq => (found = 0 /\ sbi.super = dev[0])
        /\ found = 1 => dev[1].seq > dev[0].seq

C4_Witness ==
    /\ AtReadRet
    /\ DistinctTie
    /\ found = 0 /\ sbi.super = dev[0]

(* -------------------------------- C5 ---------------------------------- *)
\* C5 as stated: for every device, read_supers on the device with the
\* contents of the two slots swapped leaves the same bytes in sbi->super and
\* returns the same value.
C5_SwapSameRecord ==
    AtReadRet =>
        /\ ReadSupersOutcome(SwapSlots(dev)).ret = ret
        /\ ReadSupersOutcome(SwapSlots(dev)).super = sbi.super

\* C5 amended: the same, for every device whose two slots are not both valid
\* with equal hdr.seq and different bytes.
C5_SwapSameRecordNoTie ==
    (AtReadRet /\ ~DistinctTie) =>
        /\ ReadSupersOutcome(SwapSlots(dev)).ret = ret
        /\ ReadSupersOutcome(SwapSlots(dev)).super = sbi.super

C5_Witness ==
    /\ AtReadRet
    /\ ValidSlots = {0, 1}
    /\ dev[1].seq > dev[0].seq
    /\ found = 1
    /\ ReadSupersOutcome(SwapSlots(dev)).found = 0
    /\ ReadSupersOutcome(SwapSlots(dev)).super = sbi.super

(* -------------------------------- C6 ---------------------------------- *)
\* every event op in the log has an earlier event ev
PrecededBy(op, ev) ==
    \A n \in 1..Len(calls) :
        calls[n][1] = op => \E m \in 1..(n - 1) : calls[m] = ev

\* every event op in the log has an earlier event named first
PrecededByOp(op, first) ==
    \A n \in 1..Len(calls) :
        calls[n][1] = op => \E m \in 1..(n - 1) : calls[m][1] = first

\* C6: once read_supers has returned an error, scoutfs_iget and d_make_root
\* are never called, sb->s_root is never set, and the counters and the bloom
\* keys are never seeded, up to and after the end of the mount.
C6_NoRootWithoutSuper ==
    Called("err_no_super") =>
        /\ ~Called("scoutfs_iget")
        /\ ~Called("d_make_root")
        /\ s_root = "NULL"
        /\ inode = "NULL"
        /\ ~Called("seed_counters")
        /\ ~Called("get_random_bytes")
        /\ sbi.next_ino = 0 /\ sbi.next_blkno = 0
        /\ sbi.bloom_hash_keys = ZeroSbi.bloom_hash_keys
        /\ pc \in {"read_ret", "fill_ret", "kill_sb", "mount_failed"}

C6_Witness ==
    /\ pc = "mount_failed"
    /\ cause = "nosuper"
    /\ ValidSlots = {}
    /\ dev[0] # NoBrick /\ dev[1] # NoBrick
    /\ dev[0].id # SCOUTFS_SUPER_ID /\ dev[1].id # SCOUTFS_SUPER_ID

(* -------------------------------- C7 ---------------------------------- *)
\* the state of a complete mount
FullyMounted ==
    /\ sbi_mem = "allocated" /\ s_fs_info = "sbi"
    /\ \E k \in ValidSlots : sbi.super = dev[k]
    /\ sbi.next_ino = SCOUTFS_ROOT_INO + 1
    /\ sbi.next_blkno = InitialBlkno
    /\ s_root = "root"

\* C7: scoutfs_fill_super returns 0 only with a validated superblock stored,
\* the counters seeded and sb->s_root attached, and only then is the
\* filesystem mounted; when a failed mount returns to its caller, whatever
\* the cause, the scoutfs_sb_info is not allocated any more and no root is
\* attached.
C7_AllOrNothing ==
    /\ (pc = "fill_ret" /\ ret = 0) => FullyMounted
    /\ pc = "mounted" => (ret = 0 /\ FullyMounted)
    /\ (pc = "fill_ret" /\ ret # 0) => cause # "none"
    /\ pc = "mount_failed" =>
          /\ ret # 0
          /\ cause \in {"alloc", "blocksize", "nosuper", "iget", "make_root"}
          /\ sbi_mem \in {"none", "freed"}
          /\ s_root = "NULL"

C7_Witness ==
    /\ pc = "mount_failed"
    /\ cause = "make_root"
    /\ sbi_mem = "freed"
    /\ CalledWith("kfree", 1)

(* -------------------------------- C8 ---------------------------------- *)
\* C8 as stated: the block size is set before the context is allocated, the
\* context is allocated before any slot is read, and the lock, the item
\* indices, the counters and the bloom keys are initialized after the
\* selection and before the root is resolved and then attached.
C8_StatedStageOrder ==
    /\ PrecededBy("kzalloc", <<"sb_set_blocksize", 1>>)
    /\ PrecededBy("sb_bread", <<"kzalloc", 1>>)
    /\ PrecededByOp("item_init", "info_using")
    /\ PrecededByOp("seed_counters", "info_using")
    /\ PrecededByOp("get_random_bytes", "info_using")
    /\ PrecededByOp("scoutfs_iget", "item_init")
    /\ PrecededByOp("scoutfs_iget", "get_random_bytes")
    /\ PrecededBy("d_make_root", <<"scoutfs_iget", 1>>)

\* C8 amended: the context is allocated, then its lock and item indices are
\* initialized, then the block size is set, then the slots are scanned and a
\* superblock selected, then the counters and the bloom keys are seeded, then
\* the root is resolved, then attached; each stage runs only after the
\* success of the one before.
C8_CodeStageOrder ==
    /\ PrecededBy("item_init", <<"kzalloc", 1>>)
    /\ PrecededByOp("sb_set_blocksize", "item_init")
    /\ PrecededBy("read_supers", <<"sb_set_blocksize", 1>>)
    /\ PrecededBy("sb_bread", <<"sb_set_blocksize", 1>>)
    /\ PrecededByOp("sb_bread", "read_supers")
    /\ \A k \in 0..(NumSlots - 1) :
           PrecededBy("info_using", <<"sb_bread", k>>)
    /\ PrecededByOp("info_using", "memcpy")
    /\ PrecededByOp("seed_counters", "info_using")
    /\ PrecededByOp("get_random_bytes", "seed_counters")
    /\ PrecededByOp("scoutfs_iget", "get_random_bytes")
    /\ PrecededBy("d_make_root", <<"scoutfs_iget", 1>>)
    /\ s_root = "root" => CalledWith("d_make_root", 1)

C8_Witness ==
    /\ pc = "mounted"
    /\ s_root = "root"
    /\ Len(calls) >= 2
    /\ calls[2] = <<"kzalloc", 1>>
    /\ CalledWith("sb_set_blocksize", 1)
    /\ CalledWith("d_make_root", 1)

(* -------------------------------- C9 ---------------------------------- *)
\* C9: after a failed allocation or a failed sb_set_blocksize
\* scoutfs_fill_super returns at once: read_supers is never entered and
\* sb_bread is never called.
C9_NoScanAfterEarlyFailure ==
    (CalledWith("kzalloc", 0) \/ CalledWith("sb_set_blocksize", 0)) =>
        /\ ~Called("read_supers")
        /\ ~Called("sb_bread")
        /\ pc \in {"fill_ret", "kill_sb", "mount_failed"}
        /\ ret # 0
        /\ sbi.super = ZeroSuper

C9_Witness ==
    /\ pc = "mount_failed"
    /\ cause = "alloc"
    /\ CalledWith("kzalloc", 0)
    /\ ValidSlots # {}

(* -------------------------------- C10 --------------------------------- *)
\* scoutfs_fill_super has returned an error
FillFailed == pc \in {"fill_ret", "kill_sb", "mount_failed"} /\ ret # 0

\* C10 as stated: the value returned when no slot holds a valid superblock
\* differs from the value returned for every other cause of failure.
C10_DistinguishedError ==
    (FillFailed /\ cause # "nosuper") => ret # ReadSupersRet(-1)

\* C10 amended: the value returned when no slot holds a valid superblock is
\* -EINVAL; it differs from the value returned for a failed allocation and
\* for a failed root attachment (-ENOMEM) and equals the value returned for an
\* unsupported block size.
C10_ErrorValues ==
    FillFailed =>
        /\ cause = "nosuper" => (ret = -EINVAL /\ ret = ReadSupersRet(-1))
        /\ cause \in {"alloc", "make_root"} =>
               (ret = -ENOMEM /\ ret # ReadSupersRet(-1))
        /\ cause = "blocksize" => (ret = -EINVAL /\ ret = ReadSupersRet(-1))

C10_Witness ==
    /\ pc = "fill_ret"
    /\ cause = "nosuper"
    /\ ret = -EINVAL
    /\ ValidSlots = {}

(* -------------------------------- C11 --------------------------------- *)
CountOf(op) == Cardinality({n \in 1..Len(calls) : calls[n][1] = op})

\* the positions of the code that read or write the context
UsesSbi ==
    pc \in {"item_init", "set_blocksize", "read_supers", "read_ret", "iget",
            "make_root", "mounted"}

\* C11: every mount, failed at any stage or unmounted, ends in
\* scoutfs_kill_sb: kill_block_super is called first and kfree of
\* sb->s_fs_info right after it, exactly once, which frees the context if one
\* was allocated (kfree(NULL) after a failed allocation); the context is never
\* freed twice and no code that uses it runs after the kfree.
C11_TeardownOrdered ==
    /\ sbi_mem # "double_free"
    /\ CountOf("kfree") <= 1
    /\ CountOf("kill_block_super") <= 1
    /\ \A n \in 1..Len(calls) :
          calls[n][1] = "kfree" =>
              /\ n = Len(calls)
              /\ n > 1
              /\ calls[n - 1] = <<"kill_block_super", 0>>
    /\ Called("kill_block_super") => Called("kfree")
    /\ pc \in {"mount_failed", "unmounted"} =>
          /\ CountOf("kfree") = 1
          /\ CalledWith("kzalloc", 1) =>
                (sbi_mem = "freed" /\ CalledWith("kfree", 1))
          /\ CalledWith("kzalloc", 0) =>
                (sbi_mem = "none" /\ CalledWith("kfree", 0))
    /\ sbi_mem = "freed" => pc \in {"mount_failed", "unmounted"}
    /\ UsesSbi => (sbi_mem = "allocated" /\ ~Called("kfree"))

C11_Witness ==
    /\ pc = "mount_failed"
    /\ cause = "alloc"
    /\ sbi_mem = "none"
    /\ Len(calls) >= 2
    /\ calls[Len(calls) - 1] = <<"kill_block_super", 0>>
    /\ calls[Len(calls)] = <<"kfree", 0>>

(* -------------------------------- C12 --------------------------------- *)
\* C12: scoutfs_dir_init is called only after scoutfs_inode_init returned 0,
\* register_filesystem only after both returned 0, nothing is called after a
\* call that returned an error, and the exit calls unregister_filesystem,
\* scoutfs_dir_exit, scoutfs_inode_exit in this order.
C12_ModuleOrder ==
    /\ \A n \in 1..Len(mod.calls) :
          /\ mod.calls[n][1] = "scoutfs_inode_init" => n = 1
          /\ mod.calls[n][1] = "scoutfs_dir_init" =>
                (n = 2 /\ mod.calls[1] = <<"scoutfs_inode_init", 0>>)
          /\ mod.calls[n][1] = "register_filesystem" =>
                /\ n = 3
                /\ mod.calls[1] = <<"scoutfs_inode_init", 0>>
                /\ mod.calls[2] = <<"scoutfs_dir_init", 0>>
          /\ mod.calls[n][2] # 0 => n = Len(mod.calls)
          /\ mod.calls[n][1] = "unregister_filesystem" =>
                (n = 4 /\ mod.calls[3] = <<"register_filesystem", 0>>)
          /\ mod.calls[n][1] = "scoutfs_dir_exit" =>
                (n = 5 /\ mod.calls[4][1] = "unregister_filesystem")
          /\ mod.calls[n][1] = "scoutfs_inode_exit" =>
                (n = 6 /\ mod.calls[5][1] = "scoutfs_dir_exit")
    /\ mod.registered => (mod.inode_init /\ mod.dir_init)
    /\ mod.pc = "exited" =>
          (Len(mod.calls) = 6 /\ ~mod.registered /\ ~mod.dir_init
           /\ ~mod.inode_init)
    /\ pc # "mount" => Len(mod.calls) >= 3

C12_Witness ==
    /\ mod.pc = "exited"
    /\ pc = "unmounted"
    /\ mod.calls = << <<"scoutfs_inode_init", 0>>, <<"scoutfs_dir_init", 0>>,
                      <<"register_filesystem", 0>>,
                      <<"unregister_filesystem", 0>>,
                      <<"scoutfs_dir_exit", 0>>, <<"scoutfs_inode_exit", 0>> >>

(* -------------------------------- C13 --------------------------------- *)
\* the buffers held after the first n events
RECURSIVE HeldAfter(_)
HeldAfter(n) ==
    IF n = 0 THEN {}
    ELSE LET e == calls[n]
             h == HeldAfter(n - 1)
         IN  IF e[1] = "sb_bread" /\ dev[e[2]] # NoBrick THEN h \cup {e[2]}
             ELSE IF e[1] = "brelse" THEN h \ {e[2]}
             ELSE h

ReleasesOf(k) == Cardinality({n \in 1..Len(calls) : calls[n] = <<"brelse", k>>})

\* C13: at most one buffer is held at any time, brelse is called only on the
\* buffer that is held, and when read_supers has returned, with 0 or with
\* -EINVAL, no buffer is held and every buffer sb_bread returned has been
\* released exactly once.
C13_BuffersBalanced ==
    /\ \A n \in 1..Len(calls) :
          /\ calls[n][1] = "sb_bread" => Cardinality(HeldAfter(n)) <= 1
          /\ calls[n][1] = "brelse" => calls[n][2] \in HeldAfter(n - 1)
    /\ HeldAfter(Len(calls)) = IF bh = NULL THEN {} ELSE {bh}
    /\ pc # "read_supers" => bh = NULL
    /\ (Called("err_no_super") \/ Called("info_using")) =>
          \A k \in 0..(NumSlots - 1) :
              ReleasesOf(k) = IF dev[k] = NoBrick THEN 0 ELSE 1

C13_Witness ==
    /\ AtReadRet
    /\ ret = -EINVAL
    /\ dev[0] # NoBrick /\ dev[0].id # SCOUTFS_SUPER_ID
    /\ dev[1] # NoBrick /\ dev[1].id = SCOUTFS_SUPER_ID
    /\ CalledWith("brelse", 0) /\ CalledWith("brelse", 1)
    /\ bh = NULL

(* -------------------------------- C19 --------------------------------- *)
\* C19: when scoutfs_module_init has returned an error no subsystem is left
\* initialized and the filesystem type is not registered.
C19_FailedLoadTornDown ==
    mod.pc = "load_failed" =>
        /\ mod.ret # 0
        /\ ~mod.inode_init
        /\ ~mod.dir_init
        /\ ~mod.registered

(* -------------------------------- C14 --------------------------------- *)
\* crc32c(~0, {1, 115, 0}) is 0xb164b2e5
CrcCheckVector ==
    Crc32c(AllOnes, <<1, 115, 0>>)
        = {0, 2, 5, 6, 7, 9, 12, 13, 15, 18, 21, 22, 24, 28, 29, 31}

\* the bricks whose stored checksum is the CRC32C of their other bytes
CrcMatches == {b \in Bricks : b.crc = SuperCrc(b)}

Warned(k) == CalledWith("warn_id", k) \/ CalledWith("warn_crc", k)

\* C14: a brick that was read is accepted exactly when its id is
\* SCOUTFS_SUPER_ID and the CRC32C, seed all-ones, of its bytes other than the
\* checksum field equals hdr.crc; a wrong id is reported as bad id and the
\* checksum is not computed; a right id with another checksum is reported as
\* bad crc.
C14_Validation ==
    /\ CrcCheckVector
    /\ \A k \in 0..(NumSlots - 1) :
          (CalledWith("sb_bread", k) /\ dev[k] # NoBrick) =>
              /\ ~Warned(k) <=>
                     (dev[k].id = SCOUTFS_SUPER_ID /\ dev[k] \in CrcMatches)
              /\ dev[k].id # SCOUTFS_SUPER_ID =>
                     /\ CalledWith("warn_id", k)
                     /\ ~CalledWith("crc32c", k)
                     /\ ~CalledWith("warn_crc", k)
              /\ (dev[k].id = SCOUTFS_SUPER_ID /\ dev[k] \notin CrcMatches) =>
                     /\ CalledWith("crc32c", k)
                     /\ CalledWith("warn_crc", k)
                     /\ ~CalledWith("warn_id", k)
              /\ ~CalledWith("warn_read", k)

C14_Witness ==
    /\ AtReadRet
    /\ dev[0] # NoBrick /\ dev[0].id # SCOUTFS_SUPER_ID /\ dev[0] \in CrcMatches
    /\ CalledWith("warn_id", 0) /\ ~CalledWith("crc32c", 0)
    /\ dev[1] # NoBrick /\ dev[1].id = SCOUTFS_SUPER_ID
    /\ dev[1] \notin CrcMatches
    /\ CalledWith("warn_crc", 1)

(* -------------------------------- C15 --------------------------------- *)
\* read_supers has selected a superblock and the context still exists
Selected == Called("info_using") /\ sbi_mem = "allocated"

\* C15: from the successful end of the selection on, through the release of
\* the buffer, the seeding, the root resolution, the root attachment and the
\* mounted state, sbi->super equals the record of the slot that won.
C15_SuperUnchanged ==
    Selected =>
        /\ found \in ValidSlots
        /\ CalledWith("memcpy", found)
        /\ CalledWith("info_using", found)
        /\ sbi.super = dev[found]

C15_Witness ==
    /\ pc = "mounted"
    /\ found = 1
    /\ dev[0] # dev[1]
    /\ CalledWith("brelse", 1)
    /\ CalledWith("seed_counters", 0)
    /\ sbi.super = dev[1]

(* -------------------------------- C16 --------------------------------- *)
\* C16: after every successful selection next_ino is SCOUTFS_ROOT_INO + 1
\* and next_blkno is 2, whatever record and slot were selected.
C16_CountersFixed ==
    Selected =>
        /\ sbi.next_ino = SCOUTFS_ROOT_INO + 1
        /\ sbi.next_blkno = 2

C16_Witness ==
    /\ AtReadRet /\ ret = 0
    /\ found = 1
    /\ sbi.super.payload = MaxPayload /\ sbi.super.seq = MaxSeq
    /\ sbi.next_ino = SCOUTFS_ROOT_INO + 1
    /\ sbi.next_blkno = 2

(* -------------------------------- C17 --------------------------------- *)
\* C17: when scoutfs_iget is called, and from then on while the context
\* exists, the item lock is initialized, both item indices are empty, a valid
\* superblock is stored, both counters are seeded and all bloom keys have
\* been drawn.
C17_InitBeforeIget ==
    ((pc = "iget" \/ Called("scoutfs_iget")) /\ sbi_mem = "allocated") =>
        /\ sbi.item_lock = "unlocked"
        /\ sbi.item_root = {} /\ sbi.dirty_item_root = {}
        /\ sbi.super \in ValidBricks
        /\ sbi.next_ino = SCOUTFS_ROOT_INO + 1
        /\ sbi.next_blkno = 2
        /\ CalledWith("get_random_bytes", NumBloomKeys)
        /\ DOMAIN sbi.bloom_hash_keys = 1..NumBloomKeys
        /\ PrecededByOp("scoutfs_iget", "item_init")
        /\ PrecededByOp("scoutfs_iget", "seed_counters")
        /\ PrecededByOp("scoutfs_iget", "get_random_bytes")

C17_Witness ==
    /\ pc = "iget"
    /\ ~Called("scoutfs_iget")
    /\ sbi.item_lock = "unlocked"
    /\ sbi.bloom_hash_keys[1] = MaxKey
    /\ sbi.super \in ValidBricks

(* -------------------------------- C18 --------------------------------- *)
\* C18: after each iteration of the scan, with the slots below i scanned,
\* either found is -1, no scanned slot is valid and sbi->super is all zero,
\* or found is a scanned valid slot, sbi->super is its record and its hdr.seq
\* is the maximum over the scanned valid slots; the slot of the 'using super'
\* message is the slot of the stored record, and after a failure sbi->super
\* is all zero.
C18_LoopInvariant ==
    /\ pc \in {"read_supers", "read_ret"} =>
          \/ /\ found < 0
             /\ sbi.super = ZeroSuper
             /\ ~Called("memcpy")
             /\ \A k \in ValidSlots : k >= i
          \/ /\ found >= 0 /\ found < i
             /\ SlotValid(found)
             /\ sbi.super = dev[found]
             /\ \A k \in ValidSlots : k < i => dev[k].seq <= sbi.super.seq
    /\ \A n \in 1..Len(calls) :
          (calls[n][1] = "info_using" /\ sbi_mem = "allocated") =>
              (calls[n][2] = found /\ sbi.super = dev[calls[n][2]])
    /\ (Called("err_no_super") /\ sbi_mem = "allocated") => sbi.super = ZeroSuper

C18_Witness ==
    /\ pc = "read_supers"
    /\ i = 1
    /\ found = 0
    /\ sbi.super = dev[0]
    /\ SlotValid(1)
    /\ dev[1].seq > dev[0].seq

TypeOK ==
    /\ dev \in Devices
    /\ sbi_mem \in {"none", "allocated", "freed", "double_free"}
    /\ found \in -1..(NumSlots - 1)
    /\ i \in 0..NumSlots

====
